---- MODULE Spec2Model ----
(***************************************************************************)
(* Session registry and lifecycle manager of aws-ssm-connect               *)
(* (package internal/tunnel): the pids.json registry file, the launcher    *)
(* StartPortForward, SavePID, ListPIDs, KillPID, KillAllPIDs, the liveness  *)
(* probe processExists and the port check isPortInUse, together with the   *)
(* operating system they talk to (process table, loopback listeners).      *)
(*                                                                         *)
(* One action is one complete call of an operation.  The variable last     *)
(* records what the most recent call was given, saw and returned, so that  *)
(* the contract of a call is a predicate of the state right after it.      *)
(***************************************************************************)
EXTENDS Integers, Sequences, FiniteSets, TLC

\* ------------------------------------------------------------------------
\* Bounds of the model
\* ------------------------------------------------------------------------
MaxPid == 2
MaxRecs == 3

Pids == 1..MaxPid

\* Inputs of a launch: the values the discovery and selection layers hand
\* over; the local port is the one a --port override asks for
Profiles == {"dev"}
InstanceNames == {"bastion"}
InstanceIDs == {"i-0abc"}
RemoteHosts == {"db.internal"}
RemotePorts == {"5432"}
LocalPorts == {"15432"}

VARIABLES pidsFile, procs, listeners, CurrentPid, last, hist, runs,
          lastSelection, cli, fetch

vars ==
    <<pidsFile, procs, listeners, CurrentPid, last, hist, runs,
      lastSelection, cli, fetch>>

\* the state of the command layer: the last-selections.json file, the command
\* that ran and the database discovery in progress
cliVars == <<lastSelection, cli, fetch>>

\* ------------------------------------------------------------------------
\* encoding/json on []PIDInfo: the text of the registry file
\* ------------------------------------------------------------------------
NoText == [json |-> "none", recs |-> <<>>]
NullText == [json |-> "null", recs |-> <<>>]
GarbageText == [json |-> "garbage", recs |-> <<>>]
ArrayText(s) == [json |-> "array", recs |-> s]
\* a file of length zero
EmptyText == [json |-> "empty", recs |-> <<>>]

\* type PIDInfo struct
PIDInfo(pid, profile, instance, db) ==
    [pid |-> pid, profile |-> profile, instance |-> instance, db |-> db]

\* fmt.Sprintf("%s:%s", a, b)
Sprintf(a, b) == <<a, ":", b>>

\* json.MarshalIndent of a slice: a nil slice is written as null
MarshalIndent(s) == IF s = <<>> THEN NullText ELSE ArrayText(s)

\* json.Unmarshal(data, &v): a syntax error leaves v as it was; null and an
\* array both decode without error
Unmarshal(data, v) ==
    CASE data.json = "array" -> [err |-> FALSE, val |-> data.recs]
      [] data.json = "null" -> [err |-> FALSE, val |-> <<>>]
      [] OTHER -> [err |-> TRUE, val |-> v]

\* ------------------------------------------------------------------------
\* The file system under $HOME/.aws-ssm-connect
\* ------------------------------------------------------------------------
NoDir == [dir |-> FALSE, exists |-> FALSE, text |-> NoText]
Absent == [dir |-> TRUE, exists |-> FALSE, text |-> NoText]
File(text) == [dir |-> TRUE, exists |-> TRUE, text |-> text]

\* os.ReadFile(pidsFilePath)
ReadFile(f) ==
    IF f.exists THEN [err |-> "nil", data |-> f.text]
    ELSE [err |-> "ENOENT", data |-> NoText]

\* os.MkdirAll(filepath.Dir(pidsFilePath), 0700)
MkdirAll(f) == [f EXCEPT !.dir = TRUE]

\* os.WriteFile(pidsFilePath, out, 0600): creates or truncates the file; fails
\* when the directory is missing
WriteFile(f, out) ==
    IF f.dir THEN [err |-> "nil", file |-> File(out)]
    ELSE [err |-> "ENOENT", file |-> f]

\* os.Remove(pidsFilePath)
Remove(f) == IF f.exists THEN Absent ELSE f

\* ------------------------------------------------------------------------
\* The operating system: process table and signals
\*   "free"    no process has this pid
\*   "tunnel"  a forwarding subprocess started by the tool, leader of its group
\*   "other"   a process-group leader of the same user the tool did not start
\*   "denied"  a process the user may not signal
\* ------------------------------------------------------------------------
\* syscall.Kill(pid, 0) through os.Process.Signal
Signal0(pt, pid) ==
    CASE pt[pid] = "free" -> "ESRCH"
      [] pt[pid] = "denied" -> "EPERM"
      [] OTHER -> "nil"

\* syscall.Kill(-pid, syscall.SIGKILL): the process group pid is signalled
\* when pid is positive; a negative pid makes the first argument positive and
\* the signal goes to the single process -pid
KillGroupErr(pt, pid) ==
    LET p == IF pid < 0 THEN 0 - pid ELSE pid
    IN CASE pt[p] = "free" -> "ESRCH"
         [] pt[p] = "denied" -> "EPERM"
         [] OTHER -> "nil"

\* the process table after syscall.Kill(-pid, syscall.SIGKILL)
KillGroup(pt, pid) ==
    LET p == IF pid < 0 THEN 0 - pid ELSE pid
    IN IF KillGroupErr(pt, pid) = "nil" THEN [pt EXCEPT ![p] = "free"] ELSE pt

\* mutant: a process that exists but may not be signalled counts as alive
processExists_ExistsMeansAlive(pt, pid) == Signal0(pt, pid) # "ESRCH"

\* mutant: the probe finds no process alive
processExists_AlwaysDead(pt, pid) == FALSE

\* processExists: alive exactly when signal 0 is delivered
processExists(pt, pid) == Signal0(pt, pid) = "nil"

\* isPortInUse: the bind on 127.0.0.1:port fails
isPortInUse(ls, port) == port \in ls

\* ------------------------------------------------------------------------
\* SavePID appends a new PID record to pids.json
\* ------------------------------------------------------------------------
\* mutant: the file is rewritten with the new record only
SavePID_Overwrite(f, info) ==
    WriteFile(MkdirAll(f), MarshalIndent(<<info>>))

\* mutant: the new record is put in front of the existing ones
SavePID_Prepend(f, info) ==
    LET rd == ReadFile(f)
        existing == IF rd.err = "nil" THEN Unmarshal(rd.data, <<>>).val ELSE <<>>
    IN WriteFile(MkdirAll(f), MarshalIndent(<<info>> \o existing))

\* mutant: a file that cannot be read or decoded is an error and is left alone
SavePID_FailOnBadFile(f, info) ==
    LET rd == ReadFile(f)
        dec == Unmarshal(rd.data, <<>>)
        out == MarshalIndent(Append(dec.val, info))
    IN IF rd.err # "nil" \/ dec.err THEN [err |-> "read_failed", file |-> f]
       ELSE WriteFile(MkdirAll(f), out)

SavePID(f, info) ==
    LET rd == ReadFile(f)
        existing == IF rd.err = "nil" THEN Unmarshal(rd.data, <<>>).val ELSE <<>>
        out == MarshalIndent(Append(existing, info))
    IN WriteFile(MkdirAll(f), out)

\* ------------------------------------------------------------------------
\* StartPortForward spawns a background SSM port-forward session.
\* spawn is what cmd.Start() gives: 0 when the OS fails to start the
\* subprocess, else the pid of the new process-group leader.
\* ------------------------------------------------------------------------
\* mutant: the port check is missing
StartPortForward_NoPortCheck(f, ls, pt, cur, profile, instanceName, instanceID, remoteHost, remotePort, localPort, spawn) ==
    IF spawn = 0
    THEN [err |-> "start_failed", file |-> f, procs |-> pt, cur |-> cur,
          pid |-> 0]
    ELSE [err |-> "nil",
          file |-> SavePID(f, PIDInfo(spawn, profile, instanceName,
                                      Sprintf(remoteHost, localPort))).file,
          procs |-> [pt EXCEPT ![spawn] = "tunnel"], cur |-> spawn,
          pid |-> spawn]

\* mutant: the record is saved before the result of cmd.Start() is looked at
StartPortForward_SaveOnFailure(f, ls, pt, cur, profile, instanceName, instanceID, remoteHost, remotePort, localPort, spawn) ==
    IF isPortInUse(ls, localPort)
    THEN [err |-> "port_in_use", file |-> f, procs |-> pt, cur |-> cur,
          pid |-> 0]
    ELSE IF spawn = 0
    THEN [err |-> "start_failed",
          file |-> SavePID(f, PIDInfo(0, profile, instanceName,
                                      Sprintf(remoteHost, localPort))).file,
          procs |-> pt, cur |-> cur, pid |-> 0]
    ELSE [err |-> "nil",
          file |-> SavePID(f, PIDInfo(spawn, profile, instanceName,
                                      Sprintf(remoteHost, localPort))).file,
          procs |-> [pt EXCEPT ![spawn] = "tunnel"], cur |-> spawn,
          pid |-> spawn]

StartPortForward(f, ls, pt, cur, profile, instanceName, instanceID, remoteHost, remotePort, localPort, spawn) ==
    IF isPortInUse(ls, localPort)
    THEN [err |-> "port_in_use", file |-> f, procs |-> pt, cur |-> cur,
          pid |-> 0]
    ELSE IF spawn = 0
    THEN [err |-> "start_failed", file |-> f, procs |-> pt, cur |-> cur,
          pid |-> 0]
    ELSE [err |-> "nil",
          file |-> SavePID(f, PIDInfo(spawn, profile, instanceName,
                                      Sprintf(remoteHost, localPort))).file,
          procs |-> [pt EXCEPT ![spawn] = "tunnel"], cur |-> spawn,
          pid |-> spawn]

\* ------------------------------------------------------------------------
\* ListPIDs prints alive PIDs and cleans up dead ones
\* ------------------------------------------------------------------------
RECURSIVE AliveLoop(_, _)
\* for _, p := range pids { if processExists(p.PID) { alive = append(alive, p) } }
AliveLoop(pt, pids) ==
    IF pids = <<>> THEN <<>>
    ELSE IF processExists(pt, Head(pids).pid)
         THEN <<Head(pids)>> \o AliveLoop(pt, Tail(pids))
         ELSE AliveLoop(pt, Tail(pids))

\* mutant: the alive records are shown but the file is written back unpruned
ListPIDs_NoPrune(f, pt) ==
    LET rd == ReadFile(f)
        dec == Unmarshal(rd.data, <<>>)
        alive == AliveLoop(pt, dec.val)
    IN IF rd.err # "nil"
       THEN [err |-> "read_failed", out |-> "none", file |-> f, shown |-> <<>>]
       ELSE IF dec.err
       THEN [err |-> "parse_failed", out |-> "none", file |-> f, shown |-> <<>>]
       ELSE [err |-> "nil",
             out |-> IF Len(alive) = 0 THEN "No active port-forward sessions."
                     ELSE "Active Port-Forward Sessions:",
             file |-> WriteFile(f, MarshalIndent(dec.val)).file,
             shown |-> alive]

\* mutant: the loop stops pruning after the first dead record
ListPIDs_PruneOnePerCall(f, pt) ==
    LET rd == ReadFile(f)
        dec == Unmarshal(rd.data, <<>>)
        pids == dec.val
        dead == {i \in DOMAIN pids : ~processExists(pt, pids[i].pid)}
        first == CHOOSE i \in dead : \A j \in dead : i <= j
        alive == IF dead = {} THEN pids
                 ELSE SubSeq(pids, 1, first - 1)
                        \o SubSeq(pids, first + 1, Len(pids))
    IN IF rd.err # "nil"
       THEN [err |-> "read_failed", out |-> "none", file |-> f, shown |-> <<>>]
       ELSE IF dec.err
       THEN [err |-> "parse_failed", out |-> "none", file |-> f, shown |-> <<>>]
       ELSE [err |-> "nil",
             out |-> IF Len(alive) = 0 THEN "No active port-forward sessions."
                     ELSE "Active Port-Forward Sessions:",
             file |-> WriteFile(f, MarshalIndent(alive)).file,
             shown |-> alive]

\* mutant: the decode error is dropped, as KillPID drops it
ListPIDs_IgnoreParseError(f, pt) ==
    LET rd == ReadFile(f)
        dec == Unmarshal(rd.data, <<>>)
        alive == AliveLoop(pt, dec.val)
    IN IF rd.err # "nil"
       THEN [err |-> "read_failed", out |-> "none", file |-> f, shown |-> <<>>]
       ELSE [err |-> "nil",
             out |-> IF Len(alive) = 0 THEN "No active port-forward sessions."
                     ELSE "Active Port-Forward Sessions:",
             file |-> WriteFile(f, MarshalIndent(alive)).file,
             shown |-> alive]

\* mutant: the records written back have profile and instance exchanged
ListPIDs_SwapsFields(f, pt) ==
    LET rd == ReadFile(f)
        dec == Unmarshal(rd.data, <<>>)
        alive == AliveLoop(pt, dec.val)
        swapped == [i \in DOMAIN alive |->
                      PIDInfo(alive[i].pid, alive[i].instance,
                              alive[i].profile, alive[i].db)]
    IN IF rd.err # "nil"
       THEN [err |-> "read_failed", out |-> "none", file |-> f, shown |-> <<>>]
       ELSE IF dec.err
       THEN [err |-> "parse_failed", out |-> "none", file |-> f, shown |-> <<>>]
       ELSE [err |-> "nil",
             out |-> IF Len(alive) = 0 THEN "No active port-forward sessions."
                     ELSE "Active Port-Forward Sessions:",
             file |-> WriteFile(f, MarshalIndent(swapped)).file,
             shown |-> alive]

ListPIDs(f, pt) ==
    LET rd == ReadFile(f)
        dec == Unmarshal(rd.data, <<>>)
        alive == AliveLoop(pt, dec.val)
    IN IF rd.err # "nil"
       THEN [err |-> "read_failed", out |-> "none", file |-> f, shown |-> <<>>]
       ELSE IF dec.err
       THEN [err |-> "parse_failed", out |-> "none", file |-> f, shown |-> <<>>]
       ELSE [err |-> "nil",
             out |-> IF Len(alive) = 0 THEN "No active port-forward sessions."
                     ELSE "Active Port-Forward Sessions:",
             file |-> WriteFile(f, MarshalIndent(alive)).file,
             shown |-> alive]

\* ------------------------------------------------------------------------
\* KillPID kills a specific session by PID and removes it from file
\* ------------------------------------------------------------------------
RECURSIVE DropLoop(_, _)
\* for _, p := range pids { if p.PID != pid { updated = append(updated, p) } }
DropLoop(pids, pid) ==
    IF pids = <<>> THEN <<>>
    ELSE IF Head(pids).pid # pid
         THEN <<Head(pids)>> \o DropLoop(Tail(pids), pid)
         ELSE DropLoop(Tail(pids), pid)

\* mutant: only the first record of the pid is dropped
KillPID_DropFirstMatch(f, pt, pid) ==
    LET sig == KillGroupErr(pt, pid)
        rd == ReadFile(f)
        pids == Unmarshal(rd.data, <<>>).val
        hits == {i \in DOMAIN pids : pids[i].pid = pid}
        first == CHOOSE i \in hits : \A j \in hits : i <= j
        updated == IF hits = {} THEN pids
                   ELSE SubSeq(pids, 1, first - 1)
                          \o SubSeq(pids, first + 1, Len(pids))
        wr == WriteFile(f, MarshalIndent(updated))
    IN IF sig # "nil" /\ sig # "ESRCH"
       THEN [err |-> "kill_failed", sig |-> sig, file |-> f, procs |-> pt]
       ELSE [err |-> IF wr.err = "nil" THEN "nil" ELSE "write_failed",
             sig |-> sig, file |-> wr.file, procs |-> KillGroup(pt, pid)]

\* mutant: "no such process" is reported as a failure like any other error
KillPID_StrictNoSuchProcess(f, pt, pid) ==
    LET sig == KillGroupErr(pt, pid)
        rd == ReadFile(f)
        pids == Unmarshal(rd.data, <<>>).val
        wr == WriteFile(f, MarshalIndent(DropLoop(pids, pid)))
    IN IF sig # "nil"
       THEN [err |-> "kill_failed", sig |-> sig, file |-> f, procs |-> pt]
       ELSE [err |-> IF wr.err = "nil" THEN "nil" ELSE "write_failed",
             sig |-> sig, file |-> wr.file, procs |-> KillGroup(pt, pid)]

\* mutant: the registry is rewritten before the result of the signal is looked at
KillPID_CleanupBeforeCheck(f, pt, pid) ==
    LET sig == KillGroupErr(pt, pid)
        rd == ReadFile(f)
        pids == Unmarshal(rd.data, <<>>).val
        wr == WriteFile(f, MarshalIndent(DropLoop(pids, pid)))
    IN IF sig # "nil" /\ sig # "ESRCH"
       THEN [err |-> "kill_failed", sig |-> sig, file |-> wr.file, procs |-> pt]
       ELSE [err |-> IF wr.err = "nil" THEN "nil" ELSE "write_failed",
             sig |-> sig, file |-> wr.file, procs |-> KillGroup(pt, pid)]

KillPID(f, pt, pid) ==
    LET sig == KillGroupErr(pt, pid)
        rd == ReadFile(f)
        pids == Unmarshal(rd.data, <<>>).val
        wr == WriteFile(f, MarshalIndent(DropLoop(pids, pid)))
    IN IF sig # "nil" /\ sig # "ESRCH"
       THEN [err |-> "kill_failed", sig |-> sig, file |-> f, procs |-> pt]
       ELSE [err |-> IF wr.err = "nil" THEN "nil" ELSE "write_failed",
             sig |-> sig, file |-> wr.file, procs |-> KillGroup(pt, pid)]

\* ------------------------------------------------------------------------
\* KillAllPIDs kills all sessions and clears pids.json
\* ------------------------------------------------------------------------
RECURSIVE KillLoop(_, _)
\* for _, p := range pids { err := syscall.Kill(-p.PID, syscall.SIGKILL) ... }
KillLoop(pt, pids) ==
    IF pids = <<>> THEN [procs |-> pt, sigs |-> <<>>]
    ELSE LET p == Head(pids).pid
             rest == KillLoop(KillGroup(pt, p), Tail(pids))
         IN [procs |-> rest.procs,
             sigs |-> <<[pid |-> p, err |-> KillGroupErr(pt, p)]>> \o rest.sigs]

\* mutant: the file is removed only when no signal failed
KillAllPIDs_KeepFileOnFailure(f, pt) ==
    LET rd == ReadFile(f)
        pids == Unmarshal(rd.data, <<>>).val
        loop == KillLoop(pt, pids)
        failed == \E i \in DOMAIN loop.sigs : loop.sigs[i].err = "EPERM"
    IN IF rd.err # "nil"
       THEN [err |-> "nil", out |-> "No active sessions to kill.",
             file |-> f, procs |-> pt, sigs |-> <<>>]
       ELSE [err |-> "nil", out |-> "killed",
             file |-> IF failed THEN f ELSE Remove(f),
             procs |-> loop.procs, sigs |-> loop.sigs]

\* mutant: the loop ends at the first signal that fails
KillAllPIDs_StopAtFirstFailure(f, pt) ==
    LET rd == ReadFile(f)
        pids == Unmarshal(rd.data, <<>>).val
        full == KillLoop(pt, pids).sigs
        bad == {i \in DOMAIN full : full[i].err # "nil"}
        stop == IF bad = {} THEN Len(pids)
                ELSE CHOOSE i \in bad : \A j \in bad : i <= j
        loop == KillLoop(pt, SubSeq(pids, 1, stop))
    IN IF rd.err # "nil"
       THEN [err |-> "nil", out |-> "No active sessions to kill.",
             file |-> f, procs |-> pt, sigs |-> <<>>]
       ELSE [err |-> "nil", out |-> "killed",
             file |-> Remove(f), procs |-> loop.procs, sigs |-> loop.sigs]

\* mutant: a missing file is reported as a read error, as ListPIDs reports it
KillAllPIDs_ErrorOnAbsent(f, pt) ==
    LET rd == ReadFile(f)
        pids == Unmarshal(rd.data, <<>>).val
        loop == KillLoop(pt, pids)
    IN IF rd.err # "nil"
       THEN [err |-> "read_failed", out |-> "none",
             file |-> f, procs |-> pt, sigs |-> <<>>]
       ELSE [err |-> "nil", out |-> "killed",
             file |-> Remove(f), procs |-> loop.procs, sigs |-> loop.sigs]

KillAllPIDs(f, pt) ==
    LET rd == ReadFile(f)
        pids == Unmarshal(rd.data, <<>>).val
        loop == KillLoop(pt, pids)
    IN IF rd.err # "nil"
       THEN [err |-> "nil", out |-> "No active sessions to kill.",
             file |-> f, procs |-> pt, sigs |-> <<>>]
       ELSE [err |-> "nil", out |-> "killed",
             file |-> Remove(f), procs |-> loop.procs, sigs |-> loop.sigs]

\* ------------------------------------------------------------------------
\* History of the run
\* ------------------------------------------------------------------------
\* the records a well-formed registry file holds (none otherwise)
Records(f) ==
    IF f.exists /\ ~Unmarshal(f.text, <<>>).err
    THEN Unmarshal(f.text, <<>>).val ELSE <<>>

PidsOf(s) == {s[i].pid : i \in DOMAIN s}

\* what the last call was given, saw and returned
Idle ==
    [op |-> "none", pid |-> 0, err |-> "nil", out |-> "none",
     pre |-> NoDir, preProcs |-> [p \in Pids |-> "free"], preCur |-> 0,
     shown |-> <<>>, alive |-> {}, sig |-> "none", sigs |-> <<>>,
     busy |-> FALSE, startFail |-> FALSE, again |-> FALSE]

\* hist.launched: the pids of the subprocesses of the successful launches so
\* far, in launch order, while the run started from an empty or absent
\* registry and has seen no kill and no death of a tunnel (hist.clean)
Dirty == [clean |-> FALSE, launched |-> <<>>]

\* no last-selections.json file
NoSelection == [exists |-> FALSE, text |-> <<>>]

\* no command of the command layer has run
NoCommand == [op |-> "none"]

\* no database discovery is in progress
NoFetch == [pc |-> "none"]

\* the command-line processes of the tool that may run at the same time
Invocations == {"a", "b"}

\* an invocation that is not running: its package variable CurrentPid and the
\* locals of its calls hold their zero values. pid is the pid cmd.Start() gave,
\* sent the process group the signal handler signalled, seen the kind of text
\* the last os.ReadFile returned, op the command and target the argument of
\* --kill. overlap: the command started while another was in progress; cut: a
\* signal ended the command before it had returned.
NotRunning ==
    [pc |-> "exited", ran |-> FALSE, CurrentPid |-> 0, pid |-> 0, sent |-> 0,
     seen |-> "none", existing |-> <<>>, alive |-> <<>>, op |-> "none",
     target |-> 0, overlap |-> FALSE, cut |-> FALSE]

Init ==
    /\ pidsFile \in {NoDir, Absent, File(NullText), File(GarbageText)}
    /\ procs = [p \in Pids |-> "free"]
    /\ listeners = {}
    /\ CurrentPid = 0
    /\ last = Idle
    /\ hist = [clean |-> pidsFile # File(GarbageText), launched |-> <<>>]
    /\ runs = [i \in Invocations |-> NotRunning]
    /\ lastSelection = NoSelection
    /\ cli = NoCommand
    /\ fetch = NoFetch

\* ------------------------------------------------------------------------
\* The operations of the tool
\* ------------------------------------------------------------------------
Launch ==
    \E profile \in Profiles, instanceName \in InstanceNames,
       instanceID \in InstanceIDs, remoteHost \in RemoteHosts,
       remotePort \in RemotePorts, localPort \in LocalPorts,
       spawn \in {0} \cup {p \in Pids : procs[p] = "free"} :
      LET r == StartPortForward(pidsFile, listeners, procs, CurrentPid,
                   profile, instanceName, instanceID, remoteHost,
                   remotePort, localPort, spawn)
      IN /\ Len(Records(pidsFile)) < MaxRecs
         /\ pidsFile' = r.file
         /\ procs' = r.procs
         /\ CurrentPid' = r.cur
         /\ last' = [Idle EXCEPT !.op = "StartPortForward", !.err = r.err,
                       !.pid = r.pid,
                       !.busy = (localPort \in listeners),
                       !.startFail = (localPort \notin listeners /\ spawn = 0),
                       !.pre = pidsFile, !.preProcs = procs,
                       !.preCur = CurrentPid]
         /\ hist' = IF hist.clean /\ r.err = "nil"
                    THEN [hist EXCEPT !.launched = Append(@, spawn)]
                    ELSE hist
         /\ UNCHANGED <<listeners, runs, cliVars>>

List ==
    LET r == ListPIDs(pidsFile, procs)
    IN /\ pidsFile' = r.file
       /\ last' = [Idle EXCEPT !.op = "ListPIDs", !.err = r.err,
                     !.out = r.out, !.shown = r.shown, !.pre = pidsFile,
                     !.preProcs = procs, !.preCur = CurrentPid,
                     !.alive = {p \in PidsOf(Records(pidsFile)) :
                                  Signal0(procs, p) = "nil"},
                     !.again = (last.op = "ListPIDs")]
       /\ UNCHANGED <<procs, listeners, CurrentPid, hist, runs, cliVars>>

Kill ==
    \E pid \in Pids :
      LET r == KillPID(pidsFile, procs, pid)
      IN /\ pidsFile' = r.file
         /\ procs' = r.procs
         /\ last' = [Idle EXCEPT !.op = "KillPID", !.pid = pid,
                       !.err = r.err, !.sig = r.sig, !.pre = pidsFile,
                       !.preProcs = procs, !.preCur = CurrentPid]
         /\ hist' = Dirty
         /\ UNCHANGED <<listeners, CurrentPid, runs, cliVars>>

KillAll ==
    LET r == KillAllPIDs(pidsFile, procs)
    IN /\ pidsFile' = r.file
       /\ procs' = r.procs
       /\ last' = [Idle EXCEPT !.op = "KillAllPIDs", !.err = r.err,
                     !.out = r.out, !.sigs = r.sigs, !.pre = pidsFile,
                     !.preProcs = procs, !.preCur = CurrentPid]
       /\ hist' = Dirty
       /\ UNCHANGED <<listeners, CurrentPid, runs, cliVars>>

\* a new run of the command-line tool: the package variable starts at zero
NewInvocation ==
    /\ CurrentPid # 0
    /\ CurrentPid' = 0
    /\ last' = Idle
    /\ UNCHANGED <<pidsFile, procs, listeners, hist, runs, cliVars>>

\* ------------------------------------------------------------------------
\* The environment
\* ------------------------------------------------------------------------
\* a process ends on its own (or is terminated outside the tool)
ProcessExit ==
    \E p \in Pids :
      /\ procs[p] # "free"
      /\ procs' = [procs EXCEPT ![p] = "free"]
      /\ hist' = IF procs[p] = "tunnel" THEN Dirty ELSE hist
      /\ last' = Idle
      /\ UNCHANGED <<pidsFile, listeners, CurrentPid, runs, cliVars>>

\* a process the tool did not start takes a free pid
ForeignSpawn ==
    \E p \in Pids, kind \in {"other", "denied"} :
      /\ procs[p] = "free"
      /\ procs' = [procs EXCEPT ![p] = kind]
      /\ last' = Idle
      /\ UNCHANGED <<pidsFile, listeners, CurrentPid, hist, runs, cliVars>>

\* a listener binds a loopback port
Listen ==
    \E port \in LocalPorts :
      /\ port \notin listeners
      /\ listeners' = listeners \cup {port}
      /\ last' = Idle
      /\ UNCHANGED <<pidsFile, procs, CurrentPid, hist, runs, cliVars>>

\* a listener releases its loopback port
Close ==
    \E port \in listeners :
      /\ listeners' = listeners \ {port}
      /\ last' = Idle
      /\ UNCHANGED <<pidsFile, procs, CurrentPid, hist, runs, cliVars>>

Next ==
    \/ Launch
    \/ List
    \/ Kill
    \/ KillAll
    \/ NewInvocation
    \/ ProcessExit
    \/ ForeignSpawn
    \/ Listen
    \/ Close

Spec == Init /\ [][Next]_vars

\* ------------------------------------------------------------------------
\* Invocations that run at the same time. Each invocation is a process of its
\* own with its own CurrentPid; the registry file and the process table are
\* shared. os.WriteFile is not one step: it opens the file with O_TRUNC, then
\* writes the bytes through the descriptor.
\* ------------------------------------------------------------------------
\* the length of a text, counted in records
Size(text) ==
    CASE text.json \in {"none", "empty"} -> 0
      [] text.json = "null" -> 1
      [] OTHER -> Len(text.recs) + 1

\* os.WriteFile, first half: os.OpenFile(name, O_WRONLY|O_CREATE|O_TRUNC, perm)
OpenTrunc(f) ==
    IF f.dir THEN [err |-> "nil", file |-> File(EmptyText)]
    ELSE [err |-> "ENOENT", file |-> f]

\* os.WriteFile, second half: f.Write(data) at offset zero. Bytes another
\* writer has put beyond the end of data since the truncation stay in place.
Write(f, out) ==
    IF Size(out) >= Size(f.text) THEN File(out)
    ELSE File([json |-> "garbage", recs |-> f.text.recs])

\* mutant: the record is appended to what the file holds at the time of the
\* write, not to what was read
SaveWriteStep_Merge(f, existing, info) ==
    File(MarshalIndent(Append(IF Records(f) # <<>> THEN Records(f)
                              ELSE existing, info)))

\* SavePID from json.MarshalIndent on: the write of existing plus info
SaveWriteStep(f, existing, info) ==
    Write(f, MarshalIndent(Append(existing, info)))

\* CleanupAndExit, the handler of os.Interrupt and SIGTERM: cur is the value
\* the handler reads from CurrentPid
CleanupAndExit(pt, cur) ==
    [procs |-> IF cur # 0 THEN KillGroup(pt, cur) ELSE pt, sent |-> cur]

\* the registry an earlier invocation has left: no directory, no file, no
\* record, or the record of one launch whose subprocess still runs or is gone
InitConc ==
    /\ \E p \in Pids, state \in {"tunnel", "free"}, profile \in Profiles,
          instanceName \in InstanceNames, remoteHost \in RemoteHosts,
          localPort \in LocalPorts :
         /\ pidsFile \in {NoDir, Absent, File(NullText),
                          File(ArrayText(<<PIDInfo(p, profile, instanceName,
                                   Sprintf(remoteHost, localPort))>>))}
         /\ procs = [q \in Pids |->
                       IF q = p /\ Records(pidsFile) # <<>> THEN state
                       ELSE "free"]
    /\ listeners = {}
    /\ CurrentPid = 0
    /\ last = Idle
    /\ hist = Dirty
    /\ runs = [i \in Invocations |-> NotRunning]
    /\ lastSelection = NoSelection
    /\ cli = NoCommand
    /\ fetch = NoFetch

\* the user runs the tool, a launch, --list or --kill <pid>; each invocation
\* is followed through one run
Run ==
    \E i \in Invocations, op \in {"launch", "list", "kill"}, pid \in Pids :
      /\ runs[i].pc = "exited"
      /\ ~runs[i].ran
      /\ runs' = [runs EXCEPT ![i] =
                    [NotRunning EXCEPT
                       !.pc = op, !.ran = TRUE, !.op = op,
                       !.target = IF op = "kill" THEN pid ELSE 0,
                       !.overlap = \E j \in Invocations \ {i} :
                                     runs[j].pc \notin {"exited", "done",
                                                        "interrupted"}]]
      /\ UNCHANGED <<pidsFile, procs, listeners, CurrentPid, last, hist, cliVars>>

\* StartPortForward up to the return of cmd.Start()
CmdStart ==
    \E i \in Invocations, localPort \in LocalPorts,
       spawn \in {0} \cup {p \in Pids : procs[p] = "free"} :
      /\ runs[i].pc = "launch"
      /\ IF isPortInUse(listeners, localPort) \/ spawn = 0
         THEN /\ runs' = [runs EXCEPT ![i].pc = "done"]
              /\ UNCHANGED procs
         ELSE /\ procs' = [procs EXCEPT ![spawn] = "tunnel"]
              /\ runs' = [runs EXCEPT ![i].pc = "started", ![i].pid = spawn]
      /\ UNCHANGED <<pidsFile, listeners, CurrentPid, last, hist, cliVars>>

\* CurrentPid = cmd.Process.Pid
SetCurrentPid ==
    \E i \in Invocations :
      /\ runs[i].pc = "started"
      /\ runs' = [runs EXCEPT ![i].pc = "save_read",
                              ![i].CurrentPid = runs[i].pid]
      /\ UNCHANGED <<pidsFile, procs, listeners, CurrentPid, last, hist, cliVars>>

\* SavePID(PIDInfo{PID: CurrentPid, ...}) up to the end of json.Unmarshal
SaveRead ==
    \E i \in Invocations :
      LET rd == ReadFile(pidsFile)
      IN /\ runs[i].pc = "save_read"
         /\ runs' = [runs EXCEPT
                ![i].pc = "save_open",
                ![i].seen = rd.data.json,
                ![i].existing = IF rd.err = "nil"
                                THEN Unmarshal(rd.data, <<>>).val ELSE <<>>]
         /\ UNCHANGED <<pidsFile, procs, listeners, CurrentPid, last, hist, cliVars>>

\* SavePID: os.MkdirAll and the open of os.WriteFile
SaveOpen ==
    \E i \in Invocations :
      /\ runs[i].pc = "save_open"
      /\ pidsFile' = OpenTrunc(MkdirAll(pidsFile)).file
      /\ runs' = [runs EXCEPT ![i].pc = "save_write"]
      /\ UNCHANGED <<procs, listeners, CurrentPid, last, hist, cliVars>>

\* SavePID: the write of os.WriteFile; StartPortForward returns
SaveWrite ==
    \E i \in Invocations, profile \in Profiles,
       instanceName \in InstanceNames, remoteHost \in RemoteHosts,
       localPort \in LocalPorts :
      /\ runs[i].pc = "save_write"
      /\ pidsFile' = SaveWriteStep(pidsFile, runs[i].existing,
                        PIDInfo(runs[i].CurrentPid, profile, instanceName,
                                Sprintf(remoteHost, localPort)))
      /\ runs' = [runs EXCEPT ![i].pc = "done"]
      /\ UNCHANGED <<procs, listeners, CurrentPid, last, hist, cliVars>>

\* ListPIDs up to the end of the liveness loop
ListRead ==
    \E i \in Invocations :
      LET rd == ReadFile(pidsFile)
          dec == Unmarshal(rd.data, <<>>)
      IN /\ runs[i].pc = "list"
         /\ runs' = [runs EXCEPT
                ![i].pc = IF rd.err # "nil" \/ dec.err THEN "done"
                          ELSE "list_open",
                ![i].seen = rd.data.json,
                ![i].alive = IF rd.err # "nil" \/ dec.err THEN <<>>
                             ELSE AliveLoop(procs, dec.val)]
         /\ UNCHANGED <<pidsFile, procs, listeners, CurrentPid, last, hist, cliVars>>

\* ListPIDs: the open of os.WriteFile
ListOpen ==
    \E i \in Invocations :
      LET o == OpenTrunc(pidsFile)
      IN /\ runs[i].pc = "list_open"
         /\ pidsFile' = o.file
         /\ runs' = [runs EXCEPT
                ![i].pc = IF o.err = "nil" THEN "list_write" ELSE "done"]
         /\ UNCHANGED <<procs, listeners, CurrentPid, last, hist, cliVars>>

\* ListPIDs: the write of os.WriteFile; ListPIDs returns
ListWrite ==
    \E i \in Invocations :
      /\ runs[i].pc = "list_write"
      /\ pidsFile' = Write(pidsFile, MarshalIndent(runs[i].alive))
      /\ runs' = [runs EXCEPT ![i].pc = "done"]
      /\ UNCHANGED <<procs, listeners, CurrentPid, last, hist, cliVars>>

\* KillPID: syscall.Kill(-pid, syscall.SIGKILL) and the check of its error
KillSignal ==
    \E i \in Invocations :
      LET sig == KillGroupErr(procs, runs[i].target)
      IN /\ runs[i].pc = "kill"
         /\ procs' = KillGroup(procs, runs[i].target)
         /\ runs' = [runs EXCEPT
                ![i].pc = IF sig # "nil" /\ sig # "ESRCH" THEN "done"
                          ELSE "kill_read"]
         /\ UNCHANGED <<pidsFile, listeners, CurrentPid, last, hist, cliVars>>

\* KillPID: os.ReadFile, json.Unmarshal and the loop that drops the pid
KillRead ==
    \E i \in Invocations :
      LET rd == ReadFile(pidsFile)
      IN /\ runs[i].pc = "kill_read"
         /\ runs' = [runs EXCEPT
                ![i].pc = "kill_open",
                ![i].seen = rd.data.json,
                ![i].alive = DropLoop(Unmarshal(rd.data, <<>>).val,
                                      runs[i].target)]
         /\ UNCHANGED <<pidsFile, procs, listeners, CurrentPid, last, hist, cliVars>>

\* KillPID: the open of os.WriteFile
KillOpen ==
    \E i \in Invocations :
      LET o == OpenTrunc(pidsFile)
      IN /\ runs[i].pc = "kill_open"
         /\ pidsFile' = o.file
         /\ runs' = [runs EXCEPT
                ![i].pc = IF o.err = "nil" THEN "kill_write" ELSE "done"]
         /\ UNCHANGED <<procs, listeners, CurrentPid, last, hist, cliVars>>

\* KillPID: the write of os.WriteFile; KillPID returns
KillWrite ==
    \E i \in Invocations :
      /\ runs[i].pc = "kill_write"
      /\ pidsFile' = Write(pidsFile, MarshalIndent(runs[i].alive))
      /\ runs' = [runs EXCEPT ![i].pc = "done"]
      /\ UNCHANGED <<procs, listeners, CurrentPid, last, hist, cliVars>>

\* os.Interrupt or SIGTERM reaches a running invocation: the handler
\* goroutine runs CleanupAndExit whatever the main goroutine is at
Interrupt ==
    \E i \in Invocations :
      LET r == CleanupAndExit(procs, runs[i].CurrentPid)
      IN /\ runs[i].pc \notin {"exited", "interrupted"}
         /\ procs' = r.procs
         /\ runs' = [runs EXCEPT ![i].pc = "interrupted", ![i].sent = r.sent,
                                 ![i].cut = runs[i].pc # "done"]
         /\ UNCHANGED <<pidsFile, listeners, CurrentPid, last, hist, cliVars>>

\* the process of the invocation is gone
Exit ==
    \E i \in Invocations :
      /\ runs[i].pc \in {"done", "interrupted"}
      /\ runs' = [runs EXCEPT ![i] =
                    [NotRunning EXCEPT !.ran = TRUE,
                                       !.overlap = runs[i].overlap,
                                       !.cut = runs[i].cut]]
      /\ UNCHANGED <<pidsFile, procs, listeners, CurrentPid, last, hist, cliVars>>

NextConc ==
    \/ Run
    \/ CmdStart
    \/ SetCurrentPid
    \/ SaveRead
    \/ SaveOpen
    \/ SaveWrite
    \/ ListRead
    \/ ListOpen
    \/ ListWrite
    \/ KillSignal
    \/ KillRead
    \/ KillOpen
    \/ KillWrite
    \/ Interrupt
    \/ Exit

SpecConc == InitConc /\ [][NextConc]_vars

\* ------------------------------------------------------------------------
\* The Last-Selection record: last-selections.json, encoding/json on
\* LastSelection. A Go string is a sequence of characters: letters, QUOTE
\* (the double quote), LT (the character <), xFF (a byte that is not valid
\* UTF-8) and uFFFD (the Unicode replacement character).
\* ------------------------------------------------------------------------
SelStrings == {<<"d", "e", "v">>, <<"QUOTE", "LT">>, <<"xFF">>}

\* type LastSelection struct
LastSelection(profile, instanceName, instanceID, dbEndpoint, dbPort) ==
    [Profile |-> profile, InstanceName |-> instanceName,
     InstanceID |-> instanceID, DBEndpoint |-> dbEndpoint, DBPort |-> dbPort]

\* encoding/json writes a string: the quote is escaped with a backslash, LT
\* as the escape u003c, and a byte that is not valid UTF-8 as the escape ufffd
EncodeString(str) ==
    [i \in DOMAIN str |->
       CASE str[i] = "QUOTE" -> "esc_quote"
         [] str[i] = "LT" -> "esc_u003c"
         [] str[i] = "xFF" -> "esc_ufffd"
         [] OTHER -> str[i]]

\* encoding/json reads a string: escapes are replaced by their characters
DecodeString(lit) ==
    [i \in DOMAIN lit |->
       CASE lit[i] = "esc_quote" -> "QUOTE"
         [] lit[i] = "esc_u003c" -> "LT"
         [] lit[i] = "esc_ufffd" -> "uFFFD"
         [] OTHER -> lit[i]]

\* json.MarshalIndent(sel, "", "  "): the object under the json tags
MarshalIndentSel(sel) ==
    [profile |-> EncodeString(sel.Profile),
     instance_name |-> EncodeString(sel.InstanceName),
     instance_id |-> EncodeString(sel.InstanceID),
     db_endpoint |-> EncodeString(sel.DBEndpoint),
     db_port |-> EncodeString(sel.DBPort)]

\* json.Unmarshal(data, &sel)
UnmarshalSel(data) ==
    LastSelection(DecodeString(data.profile), DecodeString(data.instance_name),
                  DecodeString(data.instance_id),
                  DecodeString(data.db_endpoint), DecodeString(data.db_port))

\* the zero value of LastSelection
ZeroSelection == LastSelection(<<>>, <<>>, <<>>, <<>>, <<>>)

\* mutant: a file that exists is not written again
WriteLastSelection_KeepsFirst(f, sel) ==
    [err |-> "nil",
     file |-> IF f.exists THEN f
              ELSE [exists |-> TRUE, text |-> MarshalIndentSel(sel)]]

\* WriteLastSelection persists the selection; os.MkdirAll comes first, so the
\* write finds its directory
WriteLastSelection(f, sel) ==
    [err |-> "nil", file |-> [exists |-> TRUE, text |-> MarshalIndentSel(sel)]]

\* ReadLastSelection retrieves the previous selection (if exists)
ReadLastSelection(f) ==
    IF f.exists THEN [err |-> "nil", sel |-> UnmarshalSel(f.text)]
    ELSE [err |-> "ENOENT", sel |-> ZeroSelection]

\* sel is the argument of the latest WriteLastSelection (written: there was
\* one), out what the latest ReadLastSelection returned, again whether a write
\* came before the latest
SelIdle ==
    [op |-> "none", written |-> FALSE, sel |-> ZeroSelection,
     out |-> ZeroSelection, err |-> "nil", again |-> FALSE]

InitSel ==
    /\ pidsFile \in {NoDir, Absent}
    /\ procs = [p \in Pids |-> "free"]
    /\ listeners = {}
    /\ CurrentPid = 0
    /\ last = Idle
    /\ hist = Dirty
    /\ runs = [i \in Invocations |-> NotRunning]
    /\ lastSelection = NoSelection
    /\ cli = SelIdle
    /\ fetch = NoFetch

WriteSel ==
    \E profile \in SelStrings, instanceName \in SelStrings,
       instanceID \in SelStrings, dbEndpoint \in SelStrings,
       dbPort \in SelStrings :
      LET sel == LastSelection(profile, instanceName, instanceID, dbEndpoint,
                               dbPort)
          r == WriteLastSelection(lastSelection, sel)
      IN /\ lastSelection' = r.file
         /\ pidsFile' = MkdirAll(pidsFile)
         /\ cli' = [SelIdle EXCEPT !.op = "WriteLastSelection", !.sel = sel,
                                   !.written = TRUE, !.err = r.err,
                                   !.again = cli.written]
         /\ UNCHANGED <<procs, listeners, CurrentPid, last, hist, runs, fetch>>

ReadSel ==
    LET r == ReadLastSelection(lastSelection)
    IN /\ cli' = [cli EXCEPT !.op = "ReadLastSelection", !.out = r.sel,
                             !.err = r.err]
       /\ UNCHANGED <<pidsFile, procs, listeners, CurrentPid, last, hist, runs,
                      lastSelection, fetch>>

NextSel ==
    \/ WriteSel
    \/ ReadSel

SpecSel == InitSel /\ [][NextSel]_vars

\* ------------------------------------------------------------------------
\* The command layer: QuickConnect, ConnectToDBProxy and KillSession, one
\* command per run of the tool. What the AWS discovery returns is an input.
\* ------------------------------------------------------------------------
\* type Instance struct
Instance(name, id, vpcID) == [Name |-> name, ID |-> id, VpcID |-> vpcID]

\* type DB struct
DB(endpoint, port, vpcID, role) ==
    [Endpoint |-> endpoint, Port |-> port, VpcID |-> vpcID, Role |-> role]

NoInstance == Instance(<<>>, "", "")
NoDB == DB("", "", "", "")

\* what FetchInstances may return
InstanceLists ==
    LET dev == Instance(<<"D", "e", "v">>, "i-0abc", "vpc-a")
        prod == Instance(<<"p", "r", "o", "d">>, "i-0def", "vpc-b")
        dev2 == Instance(<<"x", "d", "e", "v">>, "i-0123", "vpc-b")
    IN {<<>>, <<dev>>, <<prod, dev>>, <<dev, dev2>>, <<dev2, dev>>}

\* what FetchDBs may return: sorted by endpoint
DBLists ==
    LET reader == DB("a-ro.rds", "5432", "vpc-a", "reader")
        standalone == DB("b.rds", "5432", "vpc-a", "instance")
        cache == DB("c.cache", "6379", "vpc-a", "redis-primary")
        writer == DB("d.rds", "5432", "vpc-a", "writer")
        writerB == DB("e.rds", "3306", "vpc-b", "writer")
    IN {<<>>, <<reader, cache>>, <<standalone>>, <<reader, standalone, writer>>,
        <<writerB>>, <<cache, writer, writerB>>, <<standalone, writerB>>}

Filters == {<<"d", "e", "v">>, <<"D", "E", "V">>, <<"q", "a">>}

\* the --port override: 0 when it is not given
OverridePorts == {0, 15432}

\* strconv.Itoa
Itoa(n) == IF n = 15432 THEN "15432" ELSE "0"

\* strings.ToLower
ToLower(str) ==
    [i \in DOMAIN str |->
       CASE str[i] = "D" -> "d"
         [] str[i] = "E" -> "e"
         [] str[i] = "V" -> "v"
         [] OTHER -> str[i]]

\* strings.Contains
Contains(str, substr) ==
    \E k \in 0..(Len(str) - Len(substr)) :
      SubSeq(str, k + 1, k + Len(substr)) = substr

\* a string with no character that encoding/json escapes, as a sequence
Chars(str) == <<str>>

\* the least element of a set of indexes
First(I) == CHOOSE i \in I : \A j \in I : i <= j

\* the result of a command that ended before a tunnel was asked for
Fatal(msg, selFile, f, pt, cur, inst, db) ==
    [err |-> msg, sel |-> selFile, file |-> f, procs |-> pt, cur |-> cur,
     pid |-> 0, inst |-> inst, db |-> db]

\* QuickConnect establishes a port-forward by filtering instance + selecting
\* DB in same VPC. fetchErr names the discovery call that fails, ssoOk is the
\* result of EnsureSSOLogin, spawn what cmd.Start() gives.
QuickConnect(selFile, f, ls, pt, cur, profile, filter, overridePort, fetchErr, instances, dbs, ssoOk, spawn) ==
    LET matches == {i \in DOMAIN instances :
                      Contains(ToLower(instances[i].Name), ToLower(filter))}
        inst == instances[First(matches)]
        writers == {j \in DOMAIN dbs :
                      dbs[j].VpcID = inst.VpcID /\ dbs[j].Role = "writer"}
        db == dbs[First(writers)]
        localPort == IF overridePort # 0 THEN Itoa(overridePort) ELSE db.Port
        wr == WriteLastSelection(selFile,
                  LastSelection(Chars(profile), inst.Name, Chars(inst.ID),
                                Chars(db.Endpoint), Chars(db.Port)))
        st == StartPortForward(MkdirAll(f), ls, pt, cur, profile, inst.Name,
                  inst.ID, db.Endpoint, db.Port, localPort, spawn)
    IN IF fetchErr = "instances"
       THEN Fatal("fetch instances failed", selFile, f, pt, cur, NoInstance,
                  NoDB)
       ELSE IF matches = {}
       THEN Fatal("no instance matching filter", selFile, f, pt, cur,
                  NoInstance, NoDB)
       ELSE IF fetchErr = "dbs"
       THEN Fatal("fetch dbs failed", selFile, f, pt, cur, inst, NoDB)
       ELSE IF writers = {}
       THEN Fatal("no writer database found for selected instance", selFile, f, pt, cur, inst, NoDB)
       ELSE IF ~ssoOk
       THEN Fatal("SSO login failed", wr.file, MkdirAll(f), pt, cur, inst, db)
       ELSE [err |-> st.err, sel |-> wr.file, file |-> st.file,
             procs |-> st.procs, cur |-> st.cur, pid |-> st.pid,
             inst |-> inst, db |-> db]

\* ConnectToDBProxy: the user picks instance idx and, of the databases in its
\* VPC, candidate dbIdx (both counted from 1, 0 when the prompt is aborted)
ConnectToDBProxy(selFile, f, ls, pt, cur, profile, port, fetchErr, instances, dbs, idx, dbIdx, spawn) ==
    LET inst == instances[idx]
        candidates == SelectSeq(dbs, LAMBDA d : d.VpcID = inst.VpcID)
        db == candidates[dbIdx]
        localPort == IF port # 0 THEN Itoa(port) ELSE db.Port
        st == StartPortForward(f, ls, pt, cur, profile, inst.Name, inst.ID,
                  db.Endpoint, db.Port, localPort, spawn)
    IN IF fetchErr = "instances"
       THEN Fatal("failed to fetch instances", selFile, f, pt, cur,
                  NoInstance, NoDB)
       ELSE IF Len(instances) = 0
       THEN Fatal("no SSM-managed EC2 instances found", selFile, f, pt, cur,
                  NoInstance, NoDB)
       ELSE IF idx = 0
       THEN Fatal("prompt failed", selFile, f, pt, cur, NoInstance, NoDB)
       ELSE IF fetchErr = "dbs"
       THEN Fatal("failed to fetch databases", selFile, f, pt, cur, inst, NoDB)
       ELSE IF Len(candidates) = 0
       THEN Fatal("no databases found in same VPC as EC2 instance", selFile,
                  f, pt, cur, inst, NoDB)
       ELSE IF dbIdx = 0
       THEN Fatal("db selection prompt failed", selFile, f, pt, cur, inst,
                  NoDB)
       ELSE [err |-> st.err, sel |-> selFile, file |-> st.file,
             procs |-> st.procs, cur |-> st.cur, pid |-> st.pid,
             inst |-> inst, db |-> db]

\* the values --kill accepts and acts on: flag.Int, any integer but 0
KillArgs == {p : p \in Pids} \cup {0 - p : p \in Pids}

\* a selection an earlier connection has left
OldSelection ==
    [exists |-> TRUE,
     text |-> MarshalIndentSel(LastSelection(Chars("old"), <<"o", "l", "d">>,
                                             Chars("i-0old"), Chars("old.rds"),
                                             Chars("5432")))]

\* what the command was given and what it did: preSel is the selection file
\* before it, target the first argument of its syscall.Kill
CliIdle ==
    [op |-> "none", err |-> "nil", profile |-> "", filter |-> <<>>,
     instances |-> <<>>, dbs |-> <<>>, fetchErr |-> "none",
     inst |-> NoInstance, db |-> NoDB, pid |-> 0, preSel |-> NoSelection,
     arg |-> 0, target |-> 0, sig |-> "none", preProcs |-> <<>>]

InitCli ==
    /\ pidsFile \in {NoDir, Absent}
    /\ procs \in [Pids -> {"free", "other"}]
    /\ listeners = {}
    /\ CurrentPid = 0
    /\ last = Idle
    /\ hist = Dirty
    /\ runs = [i \in Invocations |-> NotRunning]
    /\ lastSelection \in {NoSelection, OldSelection}
    /\ cli = CliIdle
    /\ fetch = NoFetch

Quick ==
    \E profile \in Profiles, filter \in Filters,
       overridePort \in OverridePorts,
       fetchErr \in {"none", "instances", "dbs"},
       instances \in InstanceLists, dbs \in DBLists, ssoOk \in BOOLEAN,
       spawn \in {0} \cup {p \in Pids : procs[p] = "free"} :
      LET r == QuickConnect(lastSelection, pidsFile, listeners, procs,
                   CurrentPid, profile, filter, overridePort, fetchErr,
                   instances, dbs, ssoOk, spawn)
      IN /\ cli.op = "none"
         /\ lastSelection' = r.sel
         /\ pidsFile' = r.file
         /\ procs' = r.procs
         /\ CurrentPid' = r.cur
         /\ cli' = [CliIdle EXCEPT !.op = "QuickConnect", !.err = r.err,
                      !.profile = profile, !.filter = filter,
                      !.instances = instances, !.dbs = dbs,
                      !.fetchErr = fetchErr, !.inst = r.inst, !.db = r.db,
                      !.pid = r.pid, !.preSel = lastSelection,
                      !.preProcs = procs]
         /\ UNCHANGED <<listeners, last, hist, runs, fetch>>

DBProxy ==
    \E profile \in Profiles, port \in OverridePorts,
       fetchErr \in {"none", "instances", "dbs"},
       instances \in InstanceLists, dbs \in DBLists,
       spawn \in {0} \cup {p \in Pids : procs[p] = "free"} :
      \E idx \in 0..Len(instances) :
        \E dbIdx \in 0..Len(SelectSeq(dbs, LAMBDA d :
                              idx # 0 /\ d.VpcID = instances[idx].VpcID)) :
          LET r == ConnectToDBProxy(lastSelection, pidsFile, listeners, procs,
                       CurrentPid, profile, port, fetchErr, instances, dbs,
                       idx, dbIdx, spawn)
          IN /\ cli.op = "none"
             /\ lastSelection' = r.sel
             /\ pidsFile' = r.file
             /\ procs' = r.procs
             /\ CurrentPid' = r.cur
             /\ cli' = [CliIdle EXCEPT !.op = "ConnectToDBProxy",
                          !.err = r.err, !.profile = profile,
                          !.instances = instances, !.dbs = dbs,
                          !.fetchErr = fetchErr, !.inst = r.inst,
                          !.db = r.db, !.pid = r.pid,
                          !.preSel = lastSelection, !.preProcs = procs]
             /\ UNCHANGED <<listeners, last, hist, runs, fetch>>

\* --kill <pid>: KillSession
KillSession ==
    \E pid \in KillArgs :
      LET r == KillPID(pidsFile, procs, pid)
      IN /\ cli.op = "none"
         /\ pidsFile' = r.file
         /\ procs' = r.procs
         /\ cli' = [CliIdle EXCEPT !.op = "KillSession", !.err = r.err,
                      !.arg = pid, !.target = 0 - pid, !.sig = r.sig,
                      !.preSel = lastSelection, !.preProcs = procs]
         /\ UNCHANGED <<listeners, CurrentPid, last, hist, runs,
                        lastSelection, fetch>>

NextCli ==
    \/ Quick
    \/ DBProxy
    \/ KillSession

SpecCli == InitCli /\ [][NextCli]_vars

\* ------------------------------------------------------------------------
\* FetchDBs collects RDS and ElastiCache endpoints: two goroutines of an
\* errgroup append to one slice under a mutex; the caller waits and sorts.
\* An AWS call that fails returns a nil output with its error.
\* ------------------------------------------------------------------------
\* the endpoints of the model in the order of the string comparison
EndpointOrder ==
    <<"a-ro.rds", "b.rds", "c-ro.cache", "c.cache", "d.rds", "e.rds">>

\* dbs[i].Endpoint < dbs[j].Endpoint
EndpointLess(a, b) ==
    \E i, j \in DOMAIN EndpointOrder :
      EndpointOrder[i] = a /\ EndpointOrder[j] = b /\ i < j

\* sort.Slice(dbs, ...) by endpoint
RECURSIVE SortSlice(_)
SortSlice(dbs) ==
    IF dbs = <<>> THEN <<>>
    ELSE LET m == CHOOSE i \in DOMAIN dbs :
                    \A j \in DOMAIN dbs :
                      ~EndpointLess(dbs[j].Endpoint, dbs[i].Endpoint)
         IN <<dbs[m]>> \o SortSlice(SubSeq(dbs, 1, m - 1)
                                      \o SubSeq(dbs, m + 1, Len(dbs)))

\* what the RDS goroutine builds from the responses: clusters, then instances
RdsResults ==
    {<<>>,
     <<DB("d.rds", "5432", "vpc-a", "writer"),
       DB("a-ro.rds", "5432", "vpc-a", "reader")>>,
     <<DB("e.rds", "3306", "vpc-b", "writer"),
       DB("b.rds", "5432", "vpc-a", "instance")>>}

\* what the ElastiCache goroutine builds from the replication groups
CacheResults ==
    {<<>>,
     <<DB("c.cache", "6379", "vpc-a", "redis-primary")>>,
     <<DB("c.cache", "6379", "vpc-a", "redis-primary"),
       DB("c-ro.cache", "6379", "vpc-a", "redis-replica")>>}

\* the RDS calls, in the order the goroutine makes them
RdsCalls == <<"DescribeDBClusters", "DescribeDBSubnetGroups",
              "DescribeDBInstances">>

\* the ElastiCache calls, in the order the goroutine makes them
CacheCalls == <<"DescribeCacheSubnetGroups", "DescribeCacheClusters",
                "DescribeReplicationGroups">>

\* no FetchDBs call has started. rds and cache are the positions of the two
\* goroutines, dbs the shared slice, out and err what FetchDBs returns
FetchIdle ==
    [pc |-> "idle", rds |-> "none", cache |-> "none", rdsFails |-> "none",
     cacheFails |-> "none", rdsResult |-> <<>>, cacheResult |-> <<>>,
     dbs |-> <<>>, order |-> <<>>, out |-> <<>>, err |-> "nil"]

InitFetch ==
    /\ pidsFile = Absent
    /\ procs = [p \in Pids |-> "free"]
    /\ listeners = {}
    /\ CurrentPid = 0
    /\ last = Idle
    /\ hist = Dirty
    /\ runs = [i \in Invocations |-> NotRunning]
    /\ lastSelection = NoSelection
    /\ cli = NoCommand
    /\ fetch = FetchIdle

fetchOnly == <<pidsFile, procs, listeners, CurrentPid, last, hist, runs, lastSelection, cli>>

\* FetchDBs up to the second eg.Go: the configuration is loaded and both
\* goroutines are started. The inputs say what AWS will answer.
FetchStart ==
    \E cfgOk \in BOOLEAN, rdsResult \in RdsResults,
       cacheResult \in CacheResults,
       rdsFails \in {"none", "DescribeDBClusters", "DescribeDBInstances"},
       cacheFails \in {"none"} \cup {CacheCalls[i] : i \in DOMAIN CacheCalls} :
      /\ fetch.pc = "idle"
      /\ fetch' = IF cfgOk
                  THEN [FetchIdle EXCEPT !.pc = "running",
                          !.rds = RdsCalls[1], !.cache = CacheCalls[1],
                          !.rdsFails = rdsFails, !.cacheFails = cacheFails,
                          !.rdsResult = rdsResult,
                          !.cacheResult = cacheResult]
                  ELSE [FetchIdle EXCEPT !.pc = "returned",
                          !.err = "config"]
      /\ UNCHANGED fetchOnly

\* one call of the RDS goroutine and the loop over its output: the error is
\* discarded, and the range over a field of the nil output panics
RdsDescribe ==
    \E i \in DOMAIN RdsCalls :
      /\ fetch.pc = "running"
      /\ fetch.rds = RdsCalls[i]
      /\ fetch' = IF fetch.rdsFails = RdsCalls[i]
                  THEN [fetch EXCEPT !.pc = "panicked", !.rds = "panic"]
                  ELSE [fetch EXCEPT !.rds = IF i < Len(RdsCalls)
                                             THEN RdsCalls[i + 1]
                                             ELSE "lock"]
      /\ UNCHANGED fetchOnly

\* mu.Lock(); dbs = append(dbs, result...); mu.Unlock(); return nil
RdsAppend ==
    /\ fetch.pc = "running"
    /\ fetch.rds = "lock"
    /\ fetch' = [fetch EXCEPT !.rds = "done",
                   !.dbs = fetch.dbs \o fetch.rdsResult,
                   !.order = Append(fetch.order, "rds")]
    /\ UNCHANGED fetchOnly

\* DescribeCacheSubnetGroups and DescribeCacheClusters with their loops: the
\* error is discarded, and the range over a field of the nil output panics
CacheDescribe ==
    \E i \in 1..2 :
      /\ fetch.pc = "running"
      /\ fetch.cache = CacheCalls[i]
      /\ fetch' = IF fetch.cacheFails = CacheCalls[i]
                  THEN [fetch EXCEPT !.pc = "panicked", !.cache = "panic"]
                  ELSE [fetch EXCEPT !.cache = CacheCalls[i + 1]]
      /\ UNCHANGED fetchOnly

\* DescribeReplicationGroups: on an error, return nil, skip ElastiCache
\* silently
CacheReplicationGroups ==
    /\ fetch.pc = "running"
    /\ fetch.cache = CacheCalls[3]
    /\ fetch' = IF fetch.cacheFails = CacheCalls[3]
                THEN [fetch EXCEPT !.cache = "done"]
                ELSE [fetch EXCEPT !.cache = "lock"]
    /\ UNCHANGED fetchOnly

\* mu.Lock(); dbs = append(dbs, result...); mu.Unlock(); return nil
CacheAppend ==
    /\ fetch.pc = "running"
    /\ fetch.cache = "lock"
    /\ fetch' = [fetch EXCEPT !.cache = "done",
                   !.dbs = fetch.dbs \o fetch.cacheResult,
                   !.order = Append(fetch.order, "cache")]
    /\ UNCHANGED fetchOnly

\* eg.Wait() returns when both goroutines have returned, each with nil;
\* then the sort and the return
FetchWait ==
    /\ fetch.pc = "running"
    /\ fetch.rds = "done"
    /\ fetch.cache = "done"
    /\ fetch' = [fetch EXCEPT !.pc = "returned",
                   !.out = SortSlice(fetch.dbs)]
    /\ UNCHANGED fetchOnly

NextFetch ==
    \/ FetchStart
    \/ RdsDescribe
    \/ RdsAppend
    \/ CacheDescribe
    \/ CacheReplicationGroups
    \/ CacheAppend
    \/ FetchWait

SpecFetch == InitFetch /\ [][NextFetch]_vars

\* ------------------------------------------------------------------------
\* Properties
\* ------------------------------------------------------------------------
\* the records of a registry file whose pid is in the set keep
Keep(f, keep) ==
    LET Test(r) == r.pid \in keep IN SelectSeq(Records(f), Test)

C2_PortBusyNoEffect ==
    (last.op = "StartPortForward" /\ last.busy) =>
        /\ last.err = "port_in_use"
        /\ last.pid = 0
        /\ procs = last.preProcs
        /\ CurrentPid = last.preCur
        /\ pidsFile = last.pre

C2_Witness ==
    /\ last.op = "StartPortForward"
    /\ last.busy
    /\ last.err = "port_in_use"
    /\ last.preCur # 0
    /\ Len(Records(last.pre)) >= 1
    /\ \E p \in Pids : procs[p] = "free"

\* C3: a StartPortForward whose subprocess the OS fails to start returns an
\* error and leaves the registry as it was
C3_StartFailureNoRecord ==
    (last.op = "StartPortForward" /\ last.startFail) =>
        /\ last.err # "nil"
        /\ pidsFile = last.pre
        /\ procs = last.preProcs

C3_Witness ==
    /\ last.op = "StartPortForward"
    /\ last.startFail
    /\ last.err = "start_failed"
    /\ Len(Records(last.pre)) >= 1

\* C4: from an empty or absent registry, after N successful launches, no kill
\* and no death of a launched subprocess, a listing shows exactly N records,
\* one per launch, in launch order
C4_ListShowsAllLaunches ==
    (last.op = "ListPIDs" /\ hist.clean) =>
        /\ Len(last.shown) = Len(hist.launched)
        /\ \A i \in DOMAIN last.shown : last.shown[i].pid = hist.launched[i]
        /\ Len(hist.launched) >= 1 => last.err = "nil"

C4_Witness ==
    /\ last.op = "ListPIDs"
    /\ hist.clean
    /\ Len(hist.launched) >= 2
    /\ Len(last.shown) >= 2

\* C5: after ListPIDs on a readable, well-formed registry the file holds
\* exactly the records probed alive, in the order read, the same sequence is
\* presented, and no record probed dead is left
C5_ListPrunesDead ==
    (last.op = "ListPIDs" /\ last.pre.exists /\ last.pre.text.json # "garbage") =>
        /\ last.err = "nil"
        /\ pidsFile.exists
        /\ ~Unmarshal(pidsFile.text, <<>>).err
        /\ Records(pidsFile) = Keep(last.pre, last.alive)
        /\ last.shown = Keep(last.pre, last.alive)
        /\ \A i \in DOMAIN Records(pidsFile) :
              processExists(last.preProcs, Records(pidsFile)[i].pid)

C5_Witness ==
    /\ last.op = "ListPIDs"
    /\ last.err = "nil"
    /\ Len(last.shown) >= 1
    /\ Len(Records(last.pre)) >= Len(last.shown) + 2
    /\ Records(last.pre)[1].pid \notin last.alive

\* C6: a ListPIDs that directly follows a ListPIDs presents the same sequence,
\* returns the same result and leaves the registry file as the first call
\* left it
C6_ListIdempotent ==
    [][(last.op = "ListPIDs" /\ last'.op = "ListPIDs") =>
          /\ last'.shown = last.shown
          /\ last'.err = last.err
          /\ pidsFile' = pidsFile]_vars

C6_Witness ==
    /\ last.op = "ListPIDs"
    /\ last.again
    /\ last.err = "nil"
    /\ Len(last.shown) >= 1
    /\ \E p \in Pids : procs[p] = "free"

\* C7: listing an absent registry file reports the no-active-sessions
\* condition, returns no error and does not create the file
C7_AbsentListsEmpty ==
    (last.op = "ListPIDs" /\ ~last.pre.exists) =>
        /\ last.err = "nil"
        /\ last.out = "No active port-forward sessions."
        /\ ~pidsFile.exists

\* C8: listing a registry file whose content does not decode returns an
\* error and changes nothing: the file, the processes and the tracked pid
\* stay as they were and nothing is presented
C8_MalformedListFails ==
    (last.op = "ListPIDs" /\ last.pre.exists /\ last.pre.text.json = "garbage") =>
        /\ last.err = "parse_failed"
        /\ pidsFile = last.pre
        /\ last.shown = <<>>
        /\ procs = last.preProcs
        /\ CurrentPid = last.preCur

C8_Witness ==
    /\ last.op = "ListPIDs"
    /\ last.pre = File(GarbageText)
    /\ pidsFile = File(GarbageText)
    /\ \E p \in Pids : procs[p] # "free"

\* C9: after a KillPID(p) that returns no error the registry holds no record
\* of p and holds every other record it held before, in the same order
C9_KillRemovesOnlyPid ==
    (last.op = "KillPID" /\ last.err = "nil") =>
        /\ pidsFile.exists
        /\ last.pid \notin PidsOf(Records(pidsFile))
        /\ Records(pidsFile) = Keep(last.pre, Pids \ {last.pid})

C9_Witness ==
    /\ last.op = "KillPID"
    /\ last.err = "nil"
    /\ last.pid \in PidsOf(Records(last.pre))
    /\ Len(Records(pidsFile)) >= 1
    /\ Len(Records(last.pre)) >= Len(Records(pidsFile)) + 2

\* C10: KillPID(p) for a p that has a record while no process p exists
\* returns no error and removes the record of p
C10_KillDeadRemovesRecord ==
    (/\ last.op = "KillPID"
     /\ last.pid \in PidsOf(Records(last.pre))
     /\ last.preProcs[last.pid] = "free") =>
        /\ last.sig = "ESRCH"
        /\ last.err = "nil"
        /\ last.pid \notin PidsOf(Records(pidsFile))

C10_Witness ==
    /\ last.op = "KillPID"
    /\ last.pid \in PidsOf(Records(last.pre))
    /\ last.preProcs[last.pid] = "free"
    /\ last.err = "nil"
    /\ Len(Records(pidsFile)) >= 1

\* C11: KillPID(p) for a p that has no record and no process returns no error
\* and leaves the registry as it was: the same records, and an absent file
\* still absent
C11_KillUnknownNoop ==
    (/\ last.op = "KillPID"
     /\ last.pid \notin PidsOf(Records(last.pre))
     /\ last.preProcs[last.pid] = "free") =>
        /\ last.err = "nil"
        /\ Records(pidsFile) = Records(last.pre)
        /\ ~last.pre.exists => ~pidsFile.exists

\* C12: a KillPID(p) whose signal fails with an error other than "no such
\* process" returns an error and leaves the registry file and the processes
\* as they were
C12_KillDeniedKeepsRegistry ==
    (last.op = "KillPID" /\ last.preProcs[last.pid] = "denied") =>
        /\ last.sig = "EPERM"
        /\ last.err = "kill_failed"
        /\ pidsFile = last.pre
        /\ procs = last.preProcs

C12_Witness ==
    /\ last.op = "KillPID"
    /\ last.preProcs[last.pid] = "denied"
    /\ last.pid \in PidsOf(Records(pidsFile))
    /\ Len(Records(pidsFile)) >= 2

C14_KillAllSignalsEveryRecord ==
    (last.op = "KillAllPIDs") =>
        /\ last.err = "nil"
        /\ Len(last.sigs) = Len(Records(last.pre))
        /\ \A i \in DOMAIN last.sigs :
              /\ last.sigs[i].pid = Records(last.pre)[i].pid
              /\ last.sigs[i].err =
                   IF \E j \in 1..(i - 1) :
                        /\ last.sigs[j].pid = last.sigs[i].pid
                        /\ last.sigs[j].err = "nil"
                   THEN "ESRCH"
                   ELSE KillGroupErr(last.preProcs, last.sigs[i].pid)
        /\ \A p \in Pids :
              procs[p] = IF /\ p \in PidsOf(Records(last.pre))
                            /\ KillGroupErr(last.preProcs, p) = "nil"
                         THEN "free" ELSE last.preProcs[p]

C14_Witness ==
    /\ last.op = "KillAllPIDs"
    /\ Len(last.sigs) >= 3
    /\ last.sigs[1].err # "nil"
    /\ \E i \in DOMAIN last.sigs : last.sigs[i].err = "EPERM"
    /\ last.sigs[Len(last.sigs)].err = "nil"
    /\ procs # last.preProcs

\* C15: KillAllPIDs on a registry file that does not exist sends no signal,
\* returns no error and does not create the file
C15_KillAllAbsentNoop ==
    (last.op = "KillAllPIDs" /\ ~last.pre.exists) =>
        /\ last.sigs = <<>>
        /\ procs = last.preProcs
        /\ last.err = "nil"
        /\ last.out = "No active sessions to kill."
        /\ pidsFile = last.pre

C15_Witness ==
    /\ last.op = "KillAllPIDs"
    /\ ~last.pre.exists
    /\ ~pidsFile.exists
    /\ \E p \in Pids : procs[p] # "free"

C20_ProbeAliveIffSignalDelivered ==
    (last.op = "ListPIDs" /\ last.err = "nil") =>
        \A p \in PidsOf(Records(last.pre)) :
            /\ (p \in PidsOf(Records(pidsFile)))
                 <=> (last.preProcs[p] \in {"tunnel", "other"})
            /\ last.preProcs[p] = "denied" => p \notin PidsOf(last.shown)

C20_Witness ==
    /\ last.op = "ListPIDs"
    /\ last.err = "nil"
    /\ \E p \in PidsOf(Records(last.pre)) :
          /\ last.preProcs[p] = "denied"
          /\ p \notin PidsOf(Records(pidsFile))
    /\ Len(last.shown) >= 1

\* C17: a read of the registry file taken while the append of another
\* invocation is between the open and the write of its rewrite returns whole
\* content, never a file of length zero
C17_AppendRewriteAtomic ==
    [][\A i \in Invocations :
         (/\ runs[i].pc \in {"save_read", "list"}
          /\ runs'[i].pc \in {"save_open", "list_open", "done"}
          /\ \E j \in Invocations \ {i} : runs[j].pc = "save_write")
           => runs'[i].seen # "empty"]_vars

\* C18: appends are not coordinated: when two launches have both returned and
\* neither read the record of the other before it wrote, the registry does not
\* hold both records
C18_NoMergeOfConcurrentAppends ==
    \A i, j \in Invocations :
      (/\ i # j
       /\ runs[i].pc = "done" /\ runs[j].pc = "done"
       /\ runs[i].pid # 0 /\ runs[j].pid # 0
       /\ runs[i].pid # runs[j].pid
       /\ runs[i].pid \notin PidsOf(runs[j].existing)
       /\ runs[j].pid \notin PidsOf(runs[i].existing)) =>
          ~({runs[i].pid, runs[j].pid} \subseteq PidsOf(Records(pidsFile)))

\* both launches returned, both subprocesses run, one record is in the file
C18_Witness ==
    \E i, j \in Invocations :
      /\ i # j
      /\ runs[i].pc = "done" /\ runs[j].pc = "done"
      /\ runs[i].pid # 0 /\ runs[j].pid # 0
      /\ runs[i].pid # runs[j].pid
      /\ procs[runs[i].pid] = "tunnel" /\ procs[runs[j].pid] = "tunnel"
      /\ Len(Records(pidsFile)) = 1
      /\ PidsOf(Records(pidsFile)) = {runs[j].pid}

\* C19: an invocation ended by a signal has sent the kill signal to the group
\* of the subprocess it started, and has sent none when it started none
C19_HandlerKillsStartedSubprocess ==
    \A i \in Invocations :
      runs[i].pc = "interrupted" => runs[i].sent = runs[i].pid

\* C21: no two records of the registry carry the same pid while that pid is
\* the pid of a live process
C21_LivePidsUnique ==
    \A i, j \in DOMAIN Records(pidsFile) :
      (i # j /\ Records(pidsFile)[i].pid = Records(pidsFile)[j].pid) =>
          procs[Records(pidsFile)[i].pid] = "free"

\* the elements of s at the indexes in I, in the order of s
Sel(s, I) ==
    [k \in 1..Cardinality(I) |->
       s[CHOOSE i \in I : Cardinality({j \in I : j <= i}) = k]]

\* C22: a step never changes a record: after a successful launch the file
\* holds the records it held, in place, followed by one record of the new pid
\* with the profile, the instance and a host of the launch; after any other
\* step it holds a subsequence of the records it held
C22_RecordsOnlyAppendedOrRemoved ==
    [][LET old == Records(pidsFile)
           new == Records(pidsFile')
       IN IF last'.op = "StartPortForward" /\ last'.err = "nil"
          THEN /\ Len(new) = Len(old) + 1
               /\ SubSeq(new, 1, Len(old)) = old
               /\ new[Len(new)].pid = last'.pid
               /\ new[Len(new)].profile \in Profiles
               /\ new[Len(new)].instance \in InstanceNames
               /\ new[Len(new)].db[1] \in RemoteHosts
          ELSE \E I \in SUBSET DOMAIN old : new = Sel(old, I)]_vars

C22_Witness ==
    /\ last.op = "ListPIDs"
    /\ last.err = "nil"
    /\ Len(Records(pidsFile)) >= 2
    /\ Len(Records(pidsFile)) < Len(Records(last.pre))

\* C23: the db field of the record a launch writes is the remote host and the
\* remote port of the forward
C23_DbIsRemoteEndpoint ==
    (last.op = "StartPortForward" /\ last.err = "nil") =>
        \E remoteHost \in RemoteHosts, remotePort \in RemotePorts :
          Records(pidsFile)[Len(Records(pidsFile))].db
            = Sprintf(remoteHost, remotePort)

\* C29: a kill signal of KillPID or KillAllPIDs that is delivered reaches the
\* process group of a subprocess the tool started
C29_KillsOnlyOwnGroups ==
    /\ (last.op = "KillPID" /\ last.sig = "nil") =>
          last.preProcs[last.pid] = "tunnel"
    /\ (last.op = "KillAllPIDs") =>
          \A i \in DOMAIN last.sigs :
            last.sigs[i].err = "nil" =>
              last.preProcs[last.sigs[i].pid] = "tunnel"

\* C24: a ReadLastSelection returns, without error, the record the latest
\* WriteLastSelection was given, field for field
C24_RoundTrip ==
    (cli.op = "ReadLastSelection" /\ cli.written) =>
        /\ cli.err = "nil"
        /\ cli.out = cli.sel

\* no field of the record holds a byte that is not valid UTF-8
ValidUTF8(sel) ==
    \A f \in DOMAIN sel : \A i \in DOMAIN sel[f] : sel[f][i] # "xFF"

\* C24, amended: a ReadLastSelection returns, without error, the record the
\* latest WriteLastSelection was given, field for field, when every field of
\* that record is valid UTF-8, whatever was written before it
C24_RoundTripValidUTF8 ==
    (cli.op = "ReadLastSelection" /\ cli.written /\ ValidUTF8(cli.sel)) =>
        /\ cli.err = "nil"
        /\ cli.out = cli.sel

C24_Witness ==
    /\ cli.op = "ReadLastSelection"
    /\ cli.written
    /\ cli.again
    /\ ValidUTF8(cli.sel)
    /\ cli.sel.Profile = <<"QUOTE", "LT">>
    /\ cli.sel.DBPort = <<"d", "e", "v">>
    /\ cli.out = cli.sel

\* C25: after a connection command the Last-Selection file describes the most
\* recent successful connection: a command that launched its tunnel has
\* written its own selection, whichever path it took, and a command that
\* launched nothing has left the file as it found it.
C25_SelectionIsLastSuccess ==
    cli.op \in {"QuickConnect", "ConnectToDBProxy"} =>
      IF cli.err = "nil"
      THEN lastSelection =
             WriteLastSelection(cli.preSel,
                 LastSelection(Chars(cli.profile), cli.inst.Name,
                               Chars(cli.inst.ID), Chars(cli.db.Endpoint),
                               Chars(cli.db.Port))).file
      ELSE lastSelection = cli.preSel

\* C26: the signal of --kill is addressed to a process group, that is, the
\* first argument of its kill call is negative, for every non-zero pid the
\* flag accepts, the negative ones included.
C26_KillAddressesGroup ==
    cli.op = "KillSession" => cli.target < 0

\* C27: quick connect, having found an instance for the filter, fails with
\* "no writer database found for selected instance" only when the VPC of the instance has neither
\* a writer endpoint nor a standalone RDS instance.
C27_WriterOrStandalone ==
    (cli.op = "QuickConnect" /\ cli.err = "no writer database found for selected instance") =>
      ~\E j \in DOMAIN cli.dbs :
          /\ cli.dbs[j].VpcID = cli.inst.VpcID
          /\ cli.dbs[j].Role \in {"writer", "instance"}

\* C28: a FetchDBs call that loaded its configuration and whose RDS calls
\* all succeed does not crash and returns a result that holds every database
\* the RDS goroutine found, whichever ElastiCache call fails.
C28_CacheFailureKeepsRds ==
    (fetch.pc \in {"returned", "panicked"}
       /\ fetch.err = "nil" /\ fetch.rdsFails = "none") =>
      /\ fetch.pc = "returned"
      /\ \A i \in DOMAIN fetch.rdsResult :
           \E j \in DOMAIN fetch.out : fetch.out[j] = fetch.rdsResult[i]

====
